---- MODULE Spec2Model ----
(***************************************************************************)
(* The bandwidth-hero image proxy: one inbound request, handled by one of  *)
(* the copies of the pipeline the repository holds                         *)
(*   "proxy"   src/src/proxy.js  lines 53-255                              *)
(*   "proxy1a" src/proxy1.js     lines 1-265                               *)
(*   "proxy1b" src/proxy1.js     lines 267-543                             *)
(*   "legacy"  src/src/proxy.js  lines 1-52 (proxy, on request.get)        *)
(* JavaScript strings are tuples of one-character strings, so that         *)
(* startsWith, endsWith, decodeURIComponent, encodeURI, new URL and        *)
(* parseInt are computed and not assumed.                                  *)
(***************************************************************************)
EXTENDS Integers, Sequences, FiniteSets, TLC

\* ------------------------------------------------------------------ strings

Digit == {"0", "1", "2", "3", "4", "5", "6", "7", "8", "9"}

Alpha == {"a", "b", "c", "d", "e", "f", "g", "h", "i", "j", "k", "l", "m",
          "n", "o", "p", "q", "r", "s", "t", "u", "v", "w", "x", "y", "z"}

HexDigit == Digit \cup {"a", "b", "c", "d", "e", "f", "A", "B", "C", "D", "E", "F"}

startsWith(s, p) == Len(s) >= Len(p) /\ SubSeq(s, 1, Len(p)) = p

endsWith(s, p) == Len(s) >= Len(p) /\ SubSeq(s, Len(s) - Len(p) + 1, Len(s)) = p

Tail3(s) == SubSeq(s, 4, Len(s))

\* The value of a digit character.
DigitVal(c) ==
  CASE c = "0" -> 0 [] c = "1" -> 1 [] c = "2" -> 2 [] c = "3" -> 3 [] c = "4" -> 4
    [] c = "5" -> 5 [] c = "6" -> 6 [] c = "7" -> 7 [] c = "8" -> 8 [] OTHER -> 9

DigitChar(d) ==
  CASE d = 0 -> "0" [] d = 1 -> "1" [] d = 2 -> "2" [] d = 3 -> "3" [] d = 4 -> "4"
    [] d = 5 -> "5" [] d = 6 -> "6" [] d = 7 -> "7" [] d = 8 -> "8" [] OTHER -> "9"

RECURSIVE NatToString(_)
NatToString(n) ==
  IF n < 10 THEN <<DigitChar(n)>> ELSE NatToString(n \div 10) \o <<DigitChar(n % 10)>>

\* String(n) of an integer, as the http module writes a numeric header value.
NumToString(n) == IF n < 0 THEN <<"-">> \o NatToString(0 - n) ELSE NatToString(n)

\* The longest prefix of s made of digits.
RECURSIVE DigitPrefix(_)
DigitPrefix(s) ==
  IF s = <<>> \/ Head(s) \notin Digit THEN <<>> ELSE <<Head(s)>> \o DigitPrefix(Tail(s))

RECURSIVE DigitsValue(_, _)
DigitsValue(s, acc) ==
  IF s = <<>> THEN acc ELSE DigitsValue(Tail(s), acc * 10 + DigitVal(Head(s)))

\* parseInt(s, 10): an optional sign, then the longest run of digits; NaN when
\* there is none.  [nan |-> TRUE] stands for NaN.
parseInt(s) ==
  LET neg  == s # <<>> /\ Head(s) = "-"
      body == IF s # <<>> /\ Head(s) \in {"-", "+"} THEN Tail(s) ELSE s
      ds   == DigitPrefix(body)
  IN  IF ds = <<>> THEN [nan |-> TRUE, n |-> 0]
      ELSE [nan |-> FALSE, n |-> IF neg THEN 0 - DigitsValue(ds, 0) ELSE DigitsValue(ds, 0)]

\* The character a %XX escape stands for (the escapes the requests use).
HexChar(a, b) ==
  CASE a = "2" /\ b = "0" -> " "
    [] a = "2" /\ b = "5" -> "%"
    [] a = "2" /\ b \in {"F", "f"} -> "/"
    [] a = "3" /\ b \in {"A", "a"} -> ":"
    [] OTHER -> "?"

\* decodeURIComponent: a "%" must be followed by two hex digits, else URIError.
RECURSIVE decodeURIComponent(_)
decodeURIComponent(s) ==
  IF s = <<>> THEN [ok |-> TRUE, s |-> <<>>]
  ELSE IF Head(s) = "%"
    THEN IF Len(s) >= 3 /\ s[2] \in HexDigit /\ s[3] \in HexDigit
           THEN LET r == decodeURIComponent(Tail3(s))
                IN  [ok |-> r.ok, s |-> <<HexChar(s[2], s[3])>> \o r.s]
           ELSE [ok |-> FALSE, s |-> <<>>]
    ELSE LET r == decodeURIComponent(Tail(s))
         IN  [ok |-> r.ok, s |-> <<Head(s)>> \o r.s]

\* The characters encodeURI leaves alone.
UriUnescaped ==
  Alpha \cup Digit \cup {";", ",", "/", "?", ":", "@", "&", "=", "+", "$",
                         "-", "_", ".", "!", "~", "*", "'", "(", ")", "#"}

RECURSIVE encodeURI(_)
encodeURI(s) ==
  IF s = <<>> THEN <<>>
  ELSE (IF Head(s) \in UriUnescaped THEN <<Head(s)>>
        ELSE IF Head(s) = " " THEN <<"%", "2", "0">>
        ELSE <<"%", "2", "5">>) \o encodeURI(Tail(s))

RECURSIVE IndexOf(_, _, _)
IndexOf(s, c, i) ==
  IF i > Len(s) THEN 0 ELSE IF s[i] = c THEN i ELSE IndexOf(s, c, i + 1)

RECURSIVE StripSlashes(_)
StripSlashes(s) ==
  IF s # <<>> /\ Head(s) = "/" THEN StripSlashes(Tail(s)) ELSE s

S_http == <<"h", "t", "t", "p">>
S_https == <<"h", "t", "t", "p", "s">>

\* new URL(s): a scheme (a letter, then letters, digits, "+", "-", "."), a ":",
\* and for http and https a host; anything else throws ERR_INVALID_URL.
URL(s) ==
  LET i      == IndexOf(s, ":", 1)
      scheme == SubSeq(s, 1, i - 1)
      rest   == SubSeq(s, i + 1, Len(s))
      host   == StripSlashes(rest)
  IN  IF i <= 1 \/ scheme[1] \notin Alpha
         \/ \E k \in 1..Len(scheme) : scheme[k] \notin Alpha \cup Digit \cup {"+", "-", "."}
        THEN [ok |-> FALSE, protocol |-> <<>>]
      ELSE IF scheme \in {S_http, S_https} /\ (host = <<>> \/ Head(host) \in {" ", "%"})
        THEN [ok |-> FALSE, protocol |-> <<>>]
      ELSE [ok |-> TRUE, protocol |-> scheme \o <<":">>]

\* ---------------------------------------------------------------- constants

DEFAULT_QUALITY == 40
MIN_COMPRESS_LENGTH == 1024
MIN_TRANSPARENT_COMPRESS_LENGTH == MIN_COMPRESS_LENGTH * 100

S_image == <<"i", "m", "a", "g", "e">>
S_png == <<"p", "n", "g">>
S_gif == <<"g", "i", "f">>
S_webp == <<"w", "e", "b", "p">>
S_jpeg == <<"j", "p", "e", "g">>
S_via == <<"1", ".", "1", " ", "b", "a", "n", "d", "w", "i", "d", "t", "h", "-", "h", "e", "r", "o">>
S_loopback4 == <<"1", "2", "7", ".", "0", ".", "0", ".", "1">>
S_loopback6 == <<":", ":", "1">>

\* ------------------------------------------------------------ header maps

\* A header map is a function from the (lower-cased) names present to values.
NoHeaders == [n \in {} |-> <<>>]

Has(h, name) == name \in DOMAIN h

Put(h, name, value) ==
  [n \in DOMAIN h \cup {name} |-> IF n = name THEN value ELSE h[n]]

Del(h, name) == [n \in DOMAIN h \ {name} |-> h[n]]

Merge(h, g) == [n \in DOMAIN h \cup DOMAIN g |-> IF n \in DOMAIN g THEN g[n] ELSE h[n]]

\* JavaScript truthiness of h[name]: present and not the empty string.
Truthy(h, name) == Has(h, name) /\ h[name] # <<>>

\* --------------------------------------------------------- shouldCompress

\* shouldCompress with the transparent-image threshold made inclusive.
shouldCompress_inclusive(originType, originSize, webp, range) ==
  IF ~startsWith(originType, S_image) \/ originSize = 0 \/ range THEN FALSE
  ELSE IF webp /\ originSize < MIN_COMPRESS_LENGTH THEN FALSE
  ELSE IF ~webp /\ (endsWith(originType, S_png) \/ endsWith(originType, S_gif))
          /\ originSize <= MIN_TRANSPARENT_COMPRESS_LENGTH THEN FALSE
  ELSE TRUE

shouldCompress(originType, originSize, webp, range) ==
  IF ~startsWith(originType, S_image) \/ originSize = 0 \/ range THEN FALSE
  ELSE IF webp /\ originSize < MIN_COMPRESS_LENGTH THEN FALSE
  ELSE IF ~webp /\ (endsWith(originType, S_png) \/ endsWith(originType, S_gif))
          /\ originSize < MIN_TRANSPARENT_COMPRESS_LENGTH THEN FALSE
  ELSE TRUE

\* shouldCompress of src/proxy1.js without its test originSize > 0.
shouldCompress1_anysize(originType, originSize, webp, range) ==
  /\ startsWith(originType, S_image)
  /\ ~range
  /\ ~(webp /\ originSize < MIN_COMPRESS_LENGTH)
  /\ ~(~webp /\ (endsWith(originType, S_png) \/ endsWith(originType, S_gif))
         /\ originSize < MIN_TRANSPARENT_COMPRESS_LENGTH)

shouldCompress1(originType, originSize, webp, range) ==
  /\ startsWith(originType, S_image)
  /\ originSize > 0
  /\ ~range
  /\ ~(webp /\ originSize < MIN_COMPRESS_LENGTH)
  /\ ~(~webp /\ (endsWith(originType, S_png) \/ endsWith(originType, S_gif))
         /\ originSize < MIN_TRANSPARENT_COMPRESS_LENGTH)

\* ------------------------------------------------- the client response (res)

\* res: statusCode and headers are what the handler has set; headersSent is
\* res.headersSent (the header block is fixed: head); flushed says the head has
\* gone to the socket (with the first write or end); body is what was written;
\* finished is set by end(); needDrain says the last res.write returned false
\* and 'drain' has not been emitted since; closed says the client has gone away (the
\* response's 'close' event): what is written after that reaches nobody.
NewResponse ==
  [statusCode |-> 200, headers |-> NoHeaders, headersSent |-> FALSE,
   head |-> [statusCode |-> 0, headers |-> NoHeaders], flushed |-> FALSE,
   body |-> <<>>, finished |-> FALSE, sendDate |-> TRUE, closed |-> FALSE,
   needDrain |-> FALSE]

\* A run of statements on res: err is the code of the exception that ended it
\* ("" while none was thrown); a statement after a throw does nothing.
Ok(r) == [res |-> r, err |-> ""]

Throw(c, code) == [c EXCEPT !.err = code]

S_now == <<"n", "o", "w">>

\* The header block as it is fixed: the headers set, and Date unless removed.
StoreHeader(r, status, headers) ==
  [r EXCEPT !.headersSent = TRUE,
            !.head = [statusCode |-> status,
                      headers |-> IF r.sendDate /\ ~Has(headers, "date")
                                    THEN Put(headers, "date", S_now) ELSE headers]]

ImplicitHeader(r) == IF r.headersSent THEN r ELSE StoreHeader(r, r.statusCode, r.headers)

setHeader(c, name, value) ==
  IF c.err # "" THEN c
  ELSE IF c.res.headersSent THEN Throw(c, "ERR_HTTP_HEADERS_SENT")
  ELSE [c EXCEPT !.res.headers = Put(@, name, value)]

removeHeader(c, name) ==
  IF c.err # "" THEN c
  ELSE IF c.res.headersSent THEN Throw(c, "ERR_HTTP_HEADERS_SENT")
  ELSE [c EXCEPT !.res.headers = Del(@, name),
                 !.res.sendDate = IF name = "date" THEN FALSE ELSE @]

writeHead(c, status, obj) ==
  IF c.err # "" THEN c
  ELSE IF c.res.headersSent THEN Throw(c, "ERR_HTTP_HEADERS_SENT")
  ELSE LET r == c.res
           merged == IF DOMAIN r.headers = {} THEN obj ELSE Merge(r.headers, obj)
       IN  [c EXCEPT !.res = StoreHeader(
                        [r EXCEPT !.statusCode = status,
                                  !.headers = IF DOMAIN r.headers = {} THEN @ ELSE merged],
                        status, merged)]

setStatus(c, status) ==
  IF c.err # "" THEN c ELSE [c EXCEPT !.res.statusCode = status]

\* res.write that keeps only the chunk written last.
write_last(c, chunk) ==
  IF c.err # "" THEN c
  ELSE IF c.res.finished THEN Throw(c, "ERR_STREAM_WRITE_AFTER_END")
  ELSE [c EXCEPT !.res = [ImplicitHeader(c.res) EXCEPT !.flushed = TRUE,
                                                       !.body = <<chunk>>]]

write(c, chunk) ==
  IF c.err # "" THEN c
  ELSE IF c.res.finished THEN Throw(c, "ERR_STREAM_WRITE_AFTER_END")
  ELSE [c EXCEPT !.res = [ImplicitHeader(c.res) EXCEPT !.flushed = TRUE,
                                                       !.body = Append(@, chunk)]]

end(c) ==
  IF c.err # "" \/ c.res.finished THEN c
  ELSE [c EXCEPT !.res = [ImplicitHeader(c.res) EXCEPT !.flushed = TRUE,
                                                       !.finished = TRUE]]

\* ------------------------------------------------------------- copyHeaders

\* Every header of the origin response is set on res; a throw of setHeader is
\* caught and logged per header.
copyHeaders(source, c) ==
  IF c.err # "" \/ c.res.headersSent THEN c
  ELSE [c EXCEPT !.res.headers = Merge(@, source)]

\* ---------------------------------------------------------------- redirect

S_0 == <<"0">>

\* src/src/proxy.js: writeHead fixes the header block, so the removeHeader
\* that follows it throws and end() is not reached.
redirect(c, url) ==
  IF c.err # "" \/ c.res.headersSent THEN c
  ELSE end(removeHeader(removeHeader(removeHeader(removeHeader(
         writeHead(c, 302, Put(Put(NoHeaders, "location", encodeURI(url)),
                               "content-length", S_0)),
         "cache-control"), "expires"), "date"), "etag"))

\* src/proxy1.js (both copies): the status code is never set.
redirect1(c, url) ==
  IF c.err # "" \/ c.res.headersSent THEN c
  ELSE end(setHeader(removeHeader(removeHeader(removeHeader(removeHeader(
         setHeader(c, "content-length", S_0),
         "cache-control"), "expires"), "date"), "etag"),
         "location", encodeURI(url)))

\* ------------------------------------------------------------------ state

VARIABLES
  impl,             \* which copy of the pipeline handles the request
  phase,            \* where the request is
  req,              \* the inbound request: headers, ip, params
  res,              \* the client response
  exc,              \* an exception nothing caught: how it escaped, and its code
  socketDestroyed,  \* req.socket.destroy() was called
  upstream,         \* the upstream requests opened, the options of the last, whether
                    \* the origin stays silent, whether the request failed
  origin,           \* the origin response: statusCode, headers
  input,            \* the origin body stream: its consumers, chunks read, ended, errored
  tx                \* the transcoder (the sharp instances compress builds)

vars == <<impl, phase, req, res, exc, socketDestroyed, upstream, origin, input, tx>>

\* The three copies of hhproxy, and the first function of src/src/proxy.js
\* ("legacy": request.get with a callback).
Impls == {"proxy", "proxy1a", "proxy1b", "legacy"}

\* ----------------------------------------------------------------- inputs

MaxChunks == 2

S_x == <<"h", "t", "t", "p", ":", "/", "/", "x">>
S_xs == <<"h", "t", "t", "p", "s", ":", "/", "/", "x", "/", "a", "%", "2", "0", "b">>

\* req.query.url: a plain url, one with an escaped space, a bad escape, a
\* string that decodes but is no URL, a scheme http.request refuses, and "".
QueryUrls ==
  { S_x, S_xs,
    <<"h", "t", "t", "p", ":", "/", "/", "x", "/", "%">>,
    <<"x">>,
    <<"f", "t", "p", ":", "/", "/", "x">>,
    <<>> }

S_remote == <<"1", "0", ".", "0", ".", "0", ".", "9">>
S_range == <<"b", "y", "t", "e", "s", "=", "0", "-">>

Optional(name, values) == {NoHeaders} \cup {Put(NoHeaders, name, v) : v \in values}

\* req.query.l beside 80: zero, a negative, one above 100, one that is no number.
OddQualities == { <<"0">>, <<"-", "5">>, <<"1", "5", "0">>, <<"a", "b", "c">> }

\* Every url with and without jpeg and l = 80; bw = 0 and the other values of
\* l with the plain url and with none.
Queries ==
  { Merge(Merge(u, j), l) :
      u \in Optional("url", QueryUrls),
      j \in Optional("jpeg", {<<"1">>}),
      l \in Optional("l", {<<"8", "0">>}) }
  \cup
  { Put(u, "bw", <<"0">>) : u \in Optional("url", {S_x}) }
  \cup
  { Put(u, "l", l) : u \in Optional("url", {S_x}), l \in OddQualities }

S_v == <<"v">>
S_secret == <<"s">>

\* The inbound headers: the ones the loop check reads and range, or a cookie
\* and a header the proxy has no use for.
InboundHeaders ==
  { Merge(Merge(v, f), r) :
      v \in Optional("via", {S_via}),
      f \in Optional("x-forwarded-for", {S_loopback4}),
      r \in Optional("range", {S_range}) }
  \cup
  { Merge(k, a) :
      k \in Optional("cookie", {S_v}),
      a \in Optional("authorization", {S_secret}) }

Ips == {S_loopback6, S_remote}

S_text_html == <<"t", "e", "x", "t", "/", "h", "t", "m", "l">>
S_image_png == <<"i", "m", "a", "g", "e", "/", "p", "n", "g">>
S_image_gif == <<"i", "m", "a", "g", "e", "/", "g", "i", "f">>
S_image_jpeg == <<"i", "m", "a", "g", "e", "/", "j", "p", "e", "g">>
S_images_png == <<"i", "m", "a", "g", "e", "s", "/", "p", "n", "g">>

ContentTypes == {S_text_html, S_image_png, S_image_gif, S_image_jpeg, S_images_png}

ContentLengths ==
  { NumToString(n) : n \in {0, MIN_COMPRESS_LENGTH - 1, MIN_COMPRESS_LENGTH,
                            MIN_TRANSPARENT_COMPRESS_LENGTH - 1,
                            MIN_TRANSPARENT_COMPRESS_LENGTH} }

S_elsewhere == <<"h", "t", "t", "p", ":", "/", "/", "y">>

CacheHeaders ==
  [n \in {"cache-control", "expires", "date", "etag"} |-> S_v]

\* What an origin can answer: 200 with any type, length and caching headers,
\* a 3xx with or without Location, a 4xx.
OriginResponses ==
  { [statusCode |-> 200, headers |-> Merge(t, l)] :
      t \in Optional("content-type", ContentTypes),
      l \in Optional("content-length", ContentLengths) }
  \cup
  { [statusCode |-> 200,
     headers |-> Merge(Merge(Put(NoHeaders, "content-type", S_image_png), l), CacheHeaders)] :
      l \in Optional("content-length", ContentLengths) }
  \cup
  { [statusCode |-> st, headers |-> Merge(l, k)] :
      st \in {301, 404},
      l \in Optional("location", {S_elsewhere}),
      k \in {NoHeaders, CacheHeaders} }

\* --------------------------------------------------------------- the start

NoParams ==
  [url |-> <<>>, webp |-> TRUE, grayscale |-> TRUE, quality |-> DEFAULT_QUALITY,
   originType |-> <<>>, originSize |-> 0]

\* resizeWidth and resizeHeight are the options given to resize: 0 is unset (or
\* null).
NoTx ==
  [state |-> "none", height |-> 0, resizeWidth |-> 0, resizeHeight |-> 0,
   withoutEnlargement |-> FALSE, format |-> <<>>, infoSize |-> 0, piped |-> FALSE]

Init ==
  /\ impl \in Impls
  /\ phase = "start"
  /\ req = [query |-> NoHeaders, headers |-> NoHeaders, ip |-> <<>>, params |-> NoParams]
  /\ res = NewResponse
  /\ exc = [how |-> "", code |-> ""]
  /\ socketDestroyed = FALSE
  /\ upstream = [opened |-> 0, headers |-> NoHeaders, protocol |-> <<>>,
                 silent |-> FALSE, failed |-> FALSE]
  /\ origin = [statusCode |-> 0, headers |-> NoHeaders]
  /\ input = [consumers |-> {}, read |-> 0, ended |-> FALSE, errored |-> FALSE]
  /\ tx = NoTx

\* ----------------------------------------------------------------- hhproxy

Chunk(src, n) == [src |-> src, n |-> n]

\* res.end() in place of res.end(data): the data is dropped.
send_nothing(c, chunk) == end(c)

\* res.end(data)
send(c, chunk) == end(write(c, chunk))

\* The redirect of the copy that runs.
Redirect(c, url) == IF impl = "proxy" THEN redirect(c, url) ELSE redirect1(c, url)

\* req.query.bw != 0: undefined != 0; "" and "0" are loosely equal to 0.
LooseNotZero(q, name) ==
  IF ~Has(q, name) THEN TRUE
  ELSE IF q[name] = <<>> THEN FALSE
  ELSE IF DigitPrefix(q[name]) = q[name] THEN DigitsValue(q[name], 0) # 0
  ELSE TRUE

\* The quality clamped to 1..100.
Quality_clamped(q) ==
  LET p == IF Has(q, "l") THEN parseInt(q["l"]) ELSE [nan |-> TRUE, n |-> 0]
  IN  IF p.nan \/ p.n = 0 THEN DEFAULT_QUALITY
      ELSE IF p.n < 1 THEN 1 ELSE IF p.n > 100 THEN 100 ELSE p.n

\* parseInt(req.query.l, 10) || DEFAULT_QUALITY
Quality(q) ==
  LET p == IF Has(q, "l") THEN parseInt(q["l"]) ELSE [nan |-> TRUE, n |-> 0]
  IN  IF p.nan \/ p.n = 0 THEN DEFAULT_QUALITY ELSE p.n

Params(q, url) ==
  [url |-> url, webp |-> ~Truthy(q, "jpeg"), grayscale |-> LooseNotZero(q, "bw"),
   quality |-> Quality(q), originType |-> <<>>, originSize |-> 0]

\* req.headers["x-forwarded-for"] || req.ip
ForwardedFor(h, ip) == IF Truthy(h, "x-forwarded-for") THEN h["x-forwarded-for"] ELSE ip

Looped(h, ip) ==
  /\ Has(h, "via") /\ h["via"] = S_via
  /\ ForwardedFor(h, ip) \in {S_loopback4, S_loopback6}

pick(h, names) == [n \in DOMAIN h \cap names |-> h[n]]

S_agent == <<"B", "H">>

\* options.headers of the upstream request.
UpstreamHeaders(h, ip) ==
  Merge(pick(h, {"cookie", "dnt", "referer", "range"}),
        [n \in {"user-agent", "x-forwarded-for", "via"} |->
           CASE n = "user-agent" -> S_agent
             [] n = "x-forwarded-for" -> ForwardedFor(h, ip)
             [] OTHER -> S_via])

\* The catch block of hhproxy: 400 for ERR_INVALID_URL, else redirect.
catch(c, code, url) ==
  IF code = "ERR_INVALID_URL"
    THEN send(setStatus(Ok(c.res), 400), Chunk("text", 400))
    ELSE Redirect(Ok(c.res), url)

\* The handler, from its first line to its return or throw: what it leaves in
\* res, the exception that escapes it (thrown), whether it opened an upstream
\* request.
HandlerRun(q, h, ip) ==
  LET c0  == Ok(res)
      dec == decodeURIComponent(q["url"])
      url == dec.s
      u   == URL(url)
      \* http.request and https.request refuse any other protocol
      mod == IF u.protocol = S_https \o <<":">> THEN S_https \o <<":">> ELSE S_http \o <<":">>
      quiet == [c |-> c0, thrown |-> "", params |-> NoParams, open |-> FALSE,
                protocol |-> <<>>]
  IN  IF ~Truthy(q, "url")
        THEN [quiet EXCEPT !.c = send(c0, Chunk("text", 0))]
      ELSE IF ~dec.ok
        THEN [quiet EXCEPT !.thrown = "URIError"]
      ELSE IF Looped(h, ip)
        THEN LET c == Redirect(c0, url)
             IN  [quiet EXCEPT !.c = c, !.thrown = c.err, !.params = Params(q, url)]
      ELSE IF ~u.ok
        THEN [quiet EXCEPT !.thrown = "ERR_INVALID_URL", !.params = Params(q, url)]
      ELSE IF u.protocol # mod
        THEN LET c == catch(c0, "ERR_INVALID_PROTOCOL", url)
             IN  [quiet EXCEPT !.c = c, !.thrown = c.err, !.params = Params(q, url)]
      ELSE [quiet EXCEPT !.params = Params(q, url), !.open = TRUE, !.protocol = u.protocol]

hhproxy ==
  /\ phase = "start" /\ impl # "legacy"
  /\ \E q \in Queries, h \in InboundHeaders, ip \in Ips :
       LET out == HandlerRun(q, h, ip)
       IN  /\ req' = [query |-> q, headers |-> h, ip |-> ip, params |-> out.params]
           /\ res' = out.c.res
           /\ exc' = IF out.thrown = "" THEN exc ELSE [how |-> "sync", code |-> out.thrown]
           /\ phase' = IF out.open THEN "fetching" ELSE "done"
           /\ upstream' = IF out.open
                            THEN [upstream EXCEPT !.opened = @ + 1,
                                                  !.headers = UpstreamHeaders(h, ip),
                                                  !.protocol = out.protocol]
                            ELSE upstream
  /\ UNCHANGED <<impl, socketDestroyed, origin, input, tx>>

\* ------------------------------------------------- the origin's response

MAX_HEIGHT == 16383

Heights == {MAX_HEIGHT - 1, MAX_HEIGHT, MAX_HEIGHT + 1, 20000}

\* info.size: smaller than some origin sizes and larger than all of them.
InfoSizes == {500, 200000}

S_identity == <<"i", "d">>
S_star == <<"*">>
S_cross_origin == <<"c", "o">>
S_unsafe_none == <<"u", "n">>
S_1 == <<"1">>

ShouldCompress(p, h) ==
  IF impl = "proxy"
    THEN shouldCompress(p.originType, p.originSize, p.webp, Truthy(h, "range"))
    ELSE shouldCompress1(p.originType, p.originSize, p.webp, Truthy(h, "range"))

Rejected(o) ==
  o.statusCode >= 400 \/ (o.statusCode >= 300 /\ Truthy(o.headers, "location"))

\* copyHeaders and the four headers the proxy adds to every forwarded response.
Forwarded(c, o) ==
  setHeader(setHeader(setHeader(setHeader(copyHeaders(o.headers, c),
    "content-encoding", S_identity),
    "access-control-allow-origin", S_star),
    "cross-origin-resource-policy", S_cross_origin),
    "cross-origin-embedder-policy", S_unsafe_none)

\* req.params.originType and req.params.originSize
WithOrigin(p, o) ==
  [p EXCEPT !.originType = IF Truthy(o.headers, "content-type")
                             THEN o.headers["content-type"] ELSE <<>>,
            !.originSize = parseInt(IF Truthy(o.headers, "content-length")
                                      THEN o.headers["content-length"] ELSE S_0).n]

\* The bypass branch: the marker and the passthrough headers.
Bypass(c, o) ==
  LET names == {n \in {"accept-ranges", "content-type", "content-length", "content-range"} :
                  Truthy(o.headers, n)}
  IN  IF c.err # "" THEN c
      ELSE IF c.res.headersSent THEN Throw(c, "ERR_HTTP_HEADERS_SENT")
      ELSE [c EXCEPT !.res.headers = Merge(Put(@, "x-proxy-bypass", S_1),
                                           pick(o.headers, names))]

Format(p) == IF p.webp THEN S_webp ELSE S_jpeg

\* compress, up to its return: src/src/proxy.js starts the probe on the
\* instance the input is piped into.
compress(p) ==
  [tx |-> [NoTx EXCEPT !.state = "probing", !.format = Format(p), !.piped = TRUE],
   consumers |-> {"transcoder"}, thrown |-> ""]

\* src/proxy1.js, first copy: transformer is the promise metadata().then().catch()
\* returns, so transformer.on is not a function: a TypeError before any pipe.
compress1a(p) ==
  [tx |-> [NoTx EXCEPT !.state = "threw", !.format = Format(p)],
   consumers |-> {}, thrown |-> "TypeError"]

\* src/proxy1.js, second copy: a probe on sharp(inputStream), an error listener
\* on the input; the input is piped only when the probe resolves.
compress1b(p) ==
  [tx |-> [NoTx EXCEPT !.state = "probing", !.format = Format(p)],
   consumers |-> {}, thrown |-> ""]

Compress(p) ==
  CASE impl = "proxy" -> compress(p)
    [] impl = "proxy1a" -> compress1a(p)
    [] OTHER -> compress1b(p)

Uncaught(code) == [how |-> "async", code |-> code]

\* The callback of requestModule.request.
onResponse ==
  /\ phase = "fetching" /\ exc.how = "" /\ ~socketDestroyed /\ ~upstream.silent
  /\ \E o \in OriginResponses :
       /\ origin' = o
       /\ IF Rejected(o)
            THEN LET c == Redirect(Ok(res), req.params.url)
                 IN  /\ res' = c.res
                     /\ exc' = IF c.err = "" THEN exc ELSE Uncaught(c.err)
                     /\ input' = [input EXCEPT !.consumers = @ \cup {"drain"}]
                     /\ phase' = "rejected"
                     /\ UNCHANGED <<req, tx>>
            ELSE LET c == Forwarded(Ok(res), o)
                     p == WithOrigin(req.params, o)
                 IN  /\ req' = [req EXCEPT !.params = p]
                     /\ IF ShouldCompress(p, req.headers)
                          THEN LET k == Compress(p)
                               IN  /\ res' = c.res
                                   /\ tx' = k.tx
                                   /\ input' = [input EXCEPT !.consumers = @ \cup k.consumers]
                                   /\ exc' = IF k.thrown = "" THEN exc ELSE Uncaught(k.thrown)
                                   /\ phase' = "compress"
                          ELSE LET b == Bypass(c, o)
                               IN  /\ res' = b.res
                                   /\ exc' = IF b.err = "" THEN exc ELSE Uncaught(b.err)
                                   /\ input' = [input EXCEPT !.consumers = @ \cup {"bypass"}]
                                   /\ phase' = "bypass"
                                   /\ UNCHANGED tx
  /\ UNCHANGED <<impl, socketDestroyed, upstream>>

\* The origin accepts the connection and then never sends a response.
originSilent ==
  /\ phase \in {"fetching", "requested"} /\ exc.how = "" /\ ~socketDestroyed /\ ~upstream.silent
  /\ upstream' = [upstream EXCEPT !.silent = TRUE]
  /\ UNCHANGED <<impl, phase, req, res, exc, socketDestroyed, origin, input, tx>>

\* originReq.on('error'): the client socket is destroyed.  The request has no
\* timeout option and no setTimeout call, so a silent origin raises no error.
onRequestError ==
  /\ phase = "fetching" /\ exc.how = "" /\ ~socketDestroyed /\ ~upstream.silent
  /\ socketDestroyed' = TRUE
  /\ phase' = "failed"
  /\ upstream' = [upstream EXCEPT !.failed = TRUE]
  /\ UNCHANGED <<impl, req, res, exc, origin, input, tx>>

\* ------------------------------------------------- the origin body stream

\* The client disconnects while its request is in flight.  No copy listens for
\* 'close' on req or res, and none aborts originReq or the transcoder.
clientClose ==
  /\ exc.how = "" /\ ~socketDestroyed
  /\ impl # "legacy" /\ phase \in {"fetching", "bypass", "compress"}
  /\ ~res.finished /\ ~res.closed
  /\ res' = [res EXCEPT !.closed = TRUE]
  /\ UNCHANGED <<impl, phase, req, exc, socketDestroyed, upstream, origin, input, tx>>

\* src/proxy1.js pipes into res: when res closes, pipe unpipes it and the
\* source is paused.  src/src/proxy.js writes from its own listeners.
Unpiped == res.closed /\ impl # "proxy"

\* What res.write returns: false when the client's buffer is full.
Written(r, ok) == [r EXCEPT !.needDrain = @ \/ ~ok]

\* 'drain' on res: the client has taken what was buffered.
onDrain ==
  /\ exc.how = "" /\ ~socketDestroyed
  /\ res.needDrain /\ ~res.closed
  /\ res' = [res EXCEPT !.needDrain = FALSE]
  /\ UNCHANGED <<impl, phase, req, exc, socketDestroyed, upstream, origin, input, tx>>

\* pipe pauses its source while res.write has returned false; the 'data'
\* listeners of src/src/proxy.js drop what res.write returns.
Paused == res.needDrain /\ impl # "proxy"

\* A listener for 'error' is on the origin body only in the second copy of
\* src/proxy1.js, once compress has run.
InputErrorHandled == impl = "proxy1b" /\ phase = "compress"

\* A chunk of the origin body reaches its consumer: res on the bypass path
\* (the 'data' listener, or pipe), the transcoder, or nobody (resume).
onInputData ==
  /\ exc.how = "" /\ ~socketDestroyed
  /\ input.consumers # {} /\ ~input.ended /\ ~input.errored
  /\ (Unpiped \/ Paused) => "bypass" \notin input.consumers
  /\ input.read < MaxChunks
  /\ input' = [input EXCEPT !.read = @ + 1]
  /\ IF "bypass" \in input.consumers
       THEN \E ok \in BOOLEAN :
              LET c == write(Ok(res), Chunk("origin", input.read + 1))
              IN  /\ res' = IF c.err = "" THEN Written(c.res, ok) ELSE c.res
                  /\ exc' = IF c.err = "" THEN exc ELSE Uncaught(c.err)
       ELSE UNCHANGED <<res, exc>>
  /\ UNCHANGED <<impl, phase, req, socketDestroyed, upstream, origin, tx>>

\* The origin body ends: on the bypass path res is ended.
onInputEnd ==
  /\ exc.how = "" /\ ~socketDestroyed
  /\ input.consumers # {} /\ ~input.ended /\ ~input.errored
  /\ (Unpiped \/ Paused) => "bypass" \notin input.consumers
  /\ input' = [input EXCEPT !.ended = TRUE]
  /\ res' = IF "bypass" \in input.consumers THEN end(Ok(res)).res ELSE res
  /\ UNCHANGED <<impl, phase, req, exc, socketDestroyed, upstream, origin, tx>>

\* The origin body fails (the upstream connection breaks mid-body).
onInputError ==
  /\ exc.how = "" /\ ~socketDestroyed
  /\ phase \in {"rejected", "bypass", "compress"}
  /\ ~input.ended /\ ~input.errored
  /\ input' = [input EXCEPT !.errored = TRUE]
  /\ IF InputErrorHandled
       THEN LET c == redirect1(Ok(res), req.params.url)
            IN  /\ res' = c.res
                /\ exc' = IF c.err = "" THEN exc ELSE Uncaught(c.err)
       ELSE /\ exc' = Uncaught("ERR_UNHANDLED_ERROR")
            /\ UNCHANGED res
  /\ UNCHANGED <<impl, phase, req, socketDestroyed, upstream, origin, tx>>

\* ---------------------------------------------------------- the transcoder

\* No resize, whatever the height.
ResizeHeight_none(h) == 0

\* src/src/proxy.js: if (metadata.height > 16383) resize({height: 16383, ...})
ResizeHeight(h) == IF h > MAX_HEIGHT THEN MAX_HEIGHT ELSE 0

\* src/proxy1.js: if (metadata.height >= 16383) resizeHeight = 16383
ResizeHeight1(h) == IF h >= MAX_HEIGHT THEN MAX_HEIGHT ELSE 0

\* The height of the image sharp puts out for a source of t.height rows.
OutputHeight(t) ==
  IF t.resizeHeight = 0 THEN t.height
  ELSE IF t.withoutEnlargement /\ t.height < t.resizeHeight THEN t.height
  ELSE t.resizeHeight

\* metadata() resolves with the image's height.
\* src/src/proxy.js: resize when height > 16383; then the listeners are attached.
\* src/proxy1.js, second copy: resize when height >= 16383, four setHeader
\* calls, and input.pipe(transformer).pipe(res); a throw lands in .catch,
\* which calls redirect.
metadataResolved ==
  /\ exc.how = "" /\ ~socketDestroyed
  /\ impl \in {"proxy", "proxy1b"} /\ tx.state = "probing"
  /\ impl = "proxy" => input.ended
  /\ \E h \in Heights :
       IF impl = "proxy"
         THEN /\ tx' = [tx EXCEPT !.state = "encoding", !.height = h,
                                  !.resizeHeight = ResizeHeight(h),
                                  !.withoutEnlargement = ResizeHeight(h) # 0]
              /\ UNCHANGED <<res, input, exc>>
         ELSE LET c == setHeader(setHeader(setHeader(setHeader(Ok(res),
                         "content-type", S_image \o <<"/">> \o tx.format),
                         "access-control-allow-origin", S_star),
                         "cross-origin-resource-policy", S_cross_origin),
                         "cross-origin-embedder-policy", S_unsafe_none)
                  k == IF c.err = "" THEN c ELSE redirect1(Ok(c.res), req.params.url)
              IN  /\ res' = k.res
                  /\ exc' = IF k.err = "" THEN exc ELSE Uncaught(k.err)
                  /\ tx' = [tx EXCEPT !.state = IF c.err = "" THEN "piping" ELSE "failed",
                                      !.height = h,
                                      !.resizeHeight = ResizeHeight1(h),
                                      !.piped = (c.err = "")]
                  /\ input' = IF c.err = ""
                                THEN [input EXCEPT !.consumers = @ \cup {"transcoder"}]
                                ELSE input
  /\ UNCHANGED <<impl, phase, req, socketDestroyed, upstream, origin>>

\* metadata() rejects.  src/src/proxy.js has no .catch: the rejection is
\* unhandled.  src/proxy1.js, second copy: .catch calls redirect.
metadataRejected ==
  /\ exc.how = "" /\ ~socketDestroyed
  /\ impl \in {"proxy", "proxy1b"} /\ tx.state = "probing"
  /\ impl = "proxy" => input.ended
  /\ tx' = [tx EXCEPT !.state = "failed"]
  /\ IF impl = "proxy"
       THEN /\ exc' = Uncaught("unhandledRejection")
            /\ UNCHANGED res
       ELSE LET c == redirect1(Ok(res), req.params.url)
            IN  /\ res' = c.res
                /\ exc' = IF c.err = "" THEN exc ELSE Uncaught(c.err)
  /\ UNCHANGED <<impl, phase, req, socketDestroyed, upstream, origin, input>>

\* 'info' (src/src/proxy.js, the only copy that listens for it).
onInfo ==
  /\ exc.how = "" /\ ~socketDestroyed
  /\ impl = "proxy" /\ tx.state = "encoding"
  /\ \E size \in InfoSizes :
       LET c == setStatus(setHeader(setHeader(setHeader(setHeader(Ok(res),
                  "content-type", S_image \o <<"/">> \o tx.format),
                  "content-length", NumToString(size)),
                  "x-original-size", NumToString(req.params.originSize)),
                  "x-bytes-saved", NumToString(req.params.originSize - size)), 200)
       IN  /\ res' = c.res
           /\ exc' = IF c.err = "" THEN exc ELSE Uncaught(c.err)
           /\ tx' = [tx EXCEPT !.state = "info", !.infoSize = size]
  /\ UNCHANGED <<impl, phase, req, socketDestroyed, upstream, origin, input>>

\* The encoded image leaves the transcoder: res.write(chunk), by the 'data'
\* listener or by pipe.
onData ==
  /\ exc.how = "" /\ ~socketDestroyed /\ ~Unpiped
  /\ \/ impl = "proxy" /\ tx.state = "info"
     \/ impl = "proxy1b" /\ tx.state = "piping" /\ input.ended
  /\ \E size \in InfoSizes :
       /\ impl = "proxy" => size = tx.infoSize
       /\ \E ok \in BOOLEAN :
            LET c == write(Ok(res), Chunk("transcoder", size))
            IN  /\ res' = IF c.err = "" THEN Written(c.res, ok) ELSE c.res
                /\ exc' = IF c.err = "" THEN exc ELSE Uncaught(c.err)
       /\ tx' = [tx EXCEPT !.state = "data", !.infoSize = size]
  /\ UNCHANGED <<impl, phase, req, socketDestroyed, upstream, origin, input>>

\* The transcoder's output ends: res.end(), by the 'end' listener or by pipe.
onEnd ==
  /\ exc.how = "" /\ ~socketDestroyed /\ ~Unpiped /\ ~Paused
  /\ tx.state = "data"
  /\ res' = end(Ok(res)).res
  /\ tx' = [tx EXCEPT !.state = "ended"]
  /\ UNCHANGED <<impl, phase, req, exc, socketDestroyed, upstream, origin, input>>

\* The transcoder emits 'error' (in place of 'info' and the data).
\* src/src/proxy.js: the listener calls redirect.  src/proxy1.js, second copy:
\* nothing listens on the transformer.
onError ==
  /\ exc.how = "" /\ ~socketDestroyed
  /\ \/ impl = "proxy" /\ tx.state = "encoding"
     \/ impl = "proxy1b" /\ tx.state = "piping" /\ input.ended
  /\ tx' = [tx EXCEPT !.state = "errored"]
  /\ IF impl = "proxy"
       THEN LET c == redirect(Ok(res), req.params.url)
            IN  /\ res' = c.res
                /\ exc' = IF c.err = "" THEN exc ELSE Uncaught(c.err)
       ELSE /\ exc' = Uncaught("ERR_UNHANDLED_ERROR")
            /\ UNCHANGED res
  /\ UNCHANGED <<impl, phase, req, socketDestroyed, upstream, origin, input>>

\* ------------------------------------- the first function: proxy(req, res)

\* req.params as the route leaves it for proxy: the url and the target format.
LegacyParams == { [NoParams EXCEPT !.url = S_x, !.webp = w] : w \in BOOLEAN }

omit(h, names) == [n \in DOMAIN h \ names |-> h[n]]

S_comma == <<",", " ">>

\* headers of request.get: every inbound header but host and connection, the
\* user-agent, and x-forwarded-for: req.ip, or "req.ip, x-forwarded-for".
LegacyHeaders(h, ip) ==
  Merge(omit(h, {"host", "connection"}),
        [n \in {"user-agent", "x-forwarded-for"} |->
           IF n = "user-agent" THEN S_agent
           ELSE IF Truthy(h, "x-forwarded-for")
                  THEN ip \o S_comma \o h["x-forwarded-for"] ELSE ip])

\* proxy, up to its return: request.get is issued (timeout: 10000).
proxy ==
  /\ phase = "start" /\ impl = "legacy"
  /\ \E p \in LegacyParams, h \in InboundHeaders, ip \in Ips :
       /\ req' = [req EXCEPT !.headers = h, !.ip = ip, !.params = p]
       /\ upstream' = [upstream EXCEPT !.opened = @ + 1,
                                       !.headers = LegacyHeaders(h, ip),
                                       !.protocol = S_http \o <<":">>]
  /\ phase' = "requested"
  /\ UNCHANGED <<impl, res, exc, socketDestroyed, origin, input, tx>>

\* ./redirect, ./shouldCompress, ./bypass and ./compress are required by proxy
\* and are not among the sources: the four operators below are the response
\* writer, the policy and the transcoder as the specification describes them.
redirect0(c, url) ==
  IF c.err # "" \/ c.res.headersSent THEN c
  ELSE end(setStatus(setHeader(removeHeader(removeHeader(removeHeader(removeHeader(
         setHeader(c, "content-length", S_0),
         "cache-control"), "expires"), "date"), "etag"),
         "location", encodeURI(url)), 302))

shouldCompress0(originType, originSize, webp, range) ==
  IF ~startsWith(originType, S_image \o <<"/">>) THEN FALSE
  ELSE IF originSize = 0 THEN FALSE
  ELSE IF range THEN FALSE
  ELSE IF webp /\ originSize < MIN_COMPRESS_LENGTH THEN FALSE
  ELSE IF ~webp /\ (endsWith(originType, S_png) \/ endsWith(originType, S_gif))
          /\ originSize < MIN_TRANSPARENT_COMPRESS_LENGTH THEN FALSE
  ELSE TRUE

bypass0(c, size) ==
  send(setStatus(setHeader(setHeader(c,
    "x-proxy-bypass", S_1),
    "content-length", NumToString(size)), 200), Chunk("buffer", size))

\* out is the encoded size, or 0 when the transcoder fails.
compress0(c, p, out) ==
  IF out = 0 THEN redirect0(c, p.url)
  ELSE send(setStatus(setHeader(setHeader(setHeader(setHeader(c,
         "content-type", S_image \o <<"/">> \o Format(p)),
         "content-length", NumToString(out)),
         "x-original-size", NumToString(p.originSize)),
         "x-bytes-saved", NumToString(p.originSize - out)), 200),
         Chunk("transcoder", out))

\* buffer.length
BufferLengths == {0, MIN_COMPRESS_LENGTH, MIN_TRANSPARENT_COMPRESS_LENGTH}

\* What request hands to the callback: it has followed a 3xx with a Location.
LegacyResponses ==
  {o \in OriginResponses : ~(o.statusCode \in 300..399 /\ Has(o.headers, "location"))}

\* The callback of request.get: err (a DNS or connect failure, or the timeout
\* of 10 s on an origin that stays silent), or the origin's response and its
\* whole body.
callback ==
  /\ phase = "requested" /\ exc.how = "" /\ ~socketDestroyed
  /\ \/ /\ upstream' = [upstream EXCEPT !.failed = TRUE]
        /\ res' = redirect0(Ok(res), req.params.url).res
        /\ phase' = "redirected"
        /\ UNCHANGED <<req, origin>>
     \/ /\ ~upstream.silent
        /\ \E o \in LegacyResponses, size \in BufferLengths, out \in {0} \cup InfoSizes :
             /\ origin' = o
             /\ IF o.statusCode >= 400
                  THEN /\ res' = redirect0(Ok(res), req.params.url).res
                       /\ phase' = "redirected"
                       /\ UNCHANGED req
                  ELSE LET c == setHeader(copyHeaders(o.headers, Ok(res)),
                                          "content-encoding", S_identity)
                           p == [req.params EXCEPT
                                   !.originType = IF Truthy(o.headers, "content-type")
                                                    THEN o.headers["content-type"] ELSE <<>>,
                                   !.originSize = size]
                           k == shouldCompress0(p.originType, p.originSize, p.webp,
                                                Truthy(req.headers, "range"))
                       IN  /\ req' = [req EXCEPT !.params = p]
                           /\ res' = IF k THEN compress0(c, p, out).res ELSE bypass0(c, size).res
                           /\ phase' = IF k THEN "transcoded" ELSE "passed"
        /\ UNCHANGED upstream
  /\ UNCHANGED <<impl, exc, socketDestroyed, input, tx>>

Next ==
  \/ clientClose
  \/ onDrain
  \/ hhproxy
  \/ proxy
  \/ callback
  \/ onResponse
  \/ originSilent
  \/ onRequestError
  \/ onInputData
  \/ onInputEnd
  \/ onInputError
  \/ metadataResolved
  \/ metadataRejected
  \/ onInfo
  \/ onData
  \/ onEnd
  \/ onError

Spec == Init /\ [][Next]_vars

\* ------------------------------------------------------------ what is seen

\* The header block the client is given, once it has gone to the socket.
SentHeaders == IF res.flushed THEN res.head.headers ELSE NoHeaders

RedirectSent == Has(SentHeaders, "location")

BypassSent == Has(SentHeaders, "x-proxy-bypass")

\* The transcoder has produced the response's headers (on 'info', or when the
\* probe resolved) and they were sent, or its output is in the body.
CompressedSent ==
  \/ res.flushed /\ tx.state \in {"piping", "info", "data", "ended"}
  \/ \E i \in 1..Len(res.body) : res.body[i].src = "transcoder"

ModesSent ==
  {m \in {"compressed", "bypass", "redirect"} :
     \/ m = "compressed" /\ CompressedSent
     \/ m = "bypass" /\ BypassSent
     \/ m = "redirect" /\ RedirectSent}

\* The redirect the specification describes, as the client sees it.
Redirect302 ==
  /\ res.finished /\ res.flushed
  /\ res.head.statusCode = 302
  /\ Has(res.head.headers, "location")
  /\ res.head.headers["location"] = encodeURI(req.params.url)
  /\ Has(res.head.headers, "content-length") /\ res.head.headers["content-length"] = S_0
  /\ DOMAIN res.head.headers \cap {"cache-control", "expires", "date", "etag"} = {}
  /\ res.body = <<>>

OriginAnswered == origin.statusCode # 0

\* ----------------------------------------------------------------- claims

\* C1: for a request with a target url, over every interleaving of origin and
\* transcoder events, the client receives exactly one of compressed response,
\* bypass response, redirect: never two or a mixture, and, once nothing more
\* can happen, not zero.
C1_ExactlyOneMode ==
  OriginAnswered =>
    /\ Cardinality(ModesSent) <= 1
    /\ ~ENABLED Next => (Cardinality(ModesSent) = 1 /\ res.finished)

\* C2: once the response's headers are written no further header operation
\* (setHeader, removeHeader, writeHead) is performed on it: Node answers such a
\* call with ERR_HTTP_HEADERS_SENT, which therefore is never thrown.
C2_NoHeaderOpAfterHeadersSent == exc.code # "ERR_HTTP_HEADERS_SENT"

\* C3: when the origin answers >= 400, or 3xx with a Location, the body is
\* drained, nothing of the origin is forwarded, no second upstream request is
\* made and the client receives a 302 to the original target url.
C3_RejectedIsRedirected ==
  phase = "rejected" =>
    /\ "drain" \in input.consumers
    /\ upstream.opened = 1
    /\ Redirect302

\* C4: whenever the redirect path runs with headers not yet sent, the client is
\* given status 302, Location = the percent-encoded target url, content-length
\* 0, none of cache-control, expires, date, etag, no body, and the response is
\* ended by that call.
C4_RedirectResponse ==
  (Has(res.headers, "location") \/ Has(res.head.headers, "location")) => Redirect302

\* C5: a request whose via is "1.1 bandwidth-hero" and whose forwarding address
\* is 127.0.0.1 or ::1 is redirected to the target url and no upstream request
\* is opened for it.
C5_LoopIsRedirected ==
  (phase # "start" /\ Truthy(req.query, "url") /\ decodeURIComponent(req.query["url"]).ok
     /\ Looped(req.headers, req.ip)) =>
    /\ upstream.opened = 0
    /\ Redirect302

\* The part of C5 that is about the upstream: a looped request opens none.
LoopOpensNoUpstream ==
  (phase # "start" /\ impl # "legacy" /\ Looped(req.headers, req.ip)) => upstream.opened = 0

Malformed(q) ==
  /\ Truthy(q, "url")
  /\ \/ ~decodeURIComponent(q["url"]).ok
     \/ ~URL(decodeURIComponent(q["url"]).s).ok

\* C6: for a malformed url parameter the client receives status 400, no
\* redirect, no upstream connection is opened, and no exception escapes the
\* handler.
C6_MalformedIs400 ==
  (phase # "start" /\ Malformed(req.query) /\ ~Looped(req.headers, req.ip)) =>
    /\ exc.how = ""
    /\ res.finished /\ res.head.statusCode = 400
    /\ ~RedirectSent
    /\ upstream.opened = 0

S_image_slash == <<"i", "m", "a", "g", "e", "/">>

\* C7: an originType that does not start with "image/" is bypassed, whatever
\* the size, the format and the Range header.
C7_NonImageBypasses ==
  (phase \in {"bypass", "compress"} /\ ~startsWith(req.params.originType, S_image_slash))
    => phase = "bypass"

\* The ordered rule list of the compression policy, for an image type.
RuleList(originType, originSize, webp, range) ==
  IF originSize = 0 THEN FALSE
  ELSE IF range THEN FALSE
  ELSE IF webp /\ originSize < 1024 THEN FALSE
  ELSE IF ~webp /\ originType \in {S_image_png, S_image_gif} /\ originSize < 102400 THEN FALSE
  ELSE TRUE

\* C8: for an image originType the decision equals the ordered rule list:
\* bypass if originSize = 0, else if Range is present, else if WebP and
\* originSize < 1024, else if JPEG, the origin PNG or GIF and originSize <
\* 102400; otherwise compress.
C8_PolicyIsRuleList ==
  (phase \in {"bypass", "compress"} /\ startsWith(req.params.originType, S_image_slash))
    => ((phase = "compress") <=>
          RuleList(req.params.originType, req.params.originSize, req.params.webp,
                   Has(req.headers, "range")))

\* A JPEG target and a PNG of exactly 102400 bytes: compressed.
C8_Witness ==
  /\ phase = "compress" /\ impl = "proxy"
  /\ ~req.params.webp
  /\ req.params.originType = S_image_png
  /\ req.params.originSize = 102400

HeaderInt(h, name) == parseInt(h[name])

\* C9: a compressed response carries x-original-size = originSize and
\* x-bytes-saved = x-original-size - content-length, negative or not, and they
\* are in place before the first body byte.
C9_BytesSaved ==
  (\E i \in 1..Len(res.body) : res.body[i].src = "transcoder") =>
    LET h == res.head.headers
    IN  /\ {"x-original-size", "x-bytes-saved", "content-length"} \subseteq DOMAIN h
        /\ ~HeaderInt(h, "x-original-size").nan
        /\ HeaderInt(h, "x-original-size").n = req.params.originSize
        /\ HeaderInt(h, "x-bytes-saved").n
             = HeaderInt(h, "x-original-size").n - HeaderInt(h, "content-length").n

\* C10: when the transcoder fails (the probe rejects, or the stream emits an
\* error) the response is not left open: the client is redirected (the
\* response is ended) or its connection is terminated.
C10_TranscodeFailureIsTerminal ==
  tx.state \in {"failed", "errored"} => (res.finished \/ socketDestroyed)

\* C11: after a transport-level error of the upstream request (DNS, connect,
\* timeout) the client's connection is torn down and no redirect, and no other
\* response, is sent to the client.
C11_TransportErrorTearsDown ==
  upstream.failed =>
    /\ socketDestroyed
    /\ ~res.headersSent /\ ~res.flushed /\ ~res.finished
    /\ ~Has(res.headers, "location")

\* C12: on the bypass path the response has status 200 and x-proxy-bypass: 1,
\* and its body is the origin's body unmodified: at every moment what was
\* written to the client is what was received from the origin so far, in
\* order, and the response is ended exactly when the origin body ends.
C12_BypassIsPassthrough ==
  phase = "bypass" =>
    /\ res.statusCode = 200
    /\ Has(res.headers, "x-proxy-bypass") /\ res.headers["x-proxy-bypass"] = S_1
    /\ res.flushed =>
         /\ res.head.statusCode = 200
         /\ Has(res.head.headers, "x-proxy-bypass")
         /\ res.head.headers["x-proxy-bypass"] = S_1
    /\ Len(res.body) = input.read
    /\ \A i \in 1..Len(res.body) : res.body[i] = Chunk("origin", i)
    /\ res.finished <=> input.ended

\* A bypassed body of two chunks, ended.
C12_Witness ==
  phase = "bypass" /\ res.finished /\ Len(res.body) >= 2

\* The literal "bandwidth-hero-proxy".
Greeting == Chunk("text", 0)

\* C13: a GET with no url parameter is answered with the fixed body
\* "bandwidth-hero-proxy" and status 200; no request context is built and no
\* upstream connection is opened.
C13_NoUrlIsGreeted ==
  (impl # "legacy" /\ phase # "start" /\ ~Truthy(req.query, "url")) =>
    /\ phase = "done" /\ exc.how = ""
    /\ res.finished /\ res.flushed
    /\ res.head.statusCode = 200
    /\ res.body = <<Greeting>>
    /\ req.params = NoParams
    /\ upstream.opened = 0

\* The request without url has been handled.
C13_Witness ==
  impl # "legacy" /\ phase = "done" /\ ~Has(req.query, "url") /\ res.finished

\* hhproxy has assigned req.params.
ParamsBuilt ==
  /\ impl # "legacy" /\ phase # "start"
  /\ Truthy(req.query, "url") /\ decodeURIComponent(req.query["url"]).ok

\* s is an integer written out: an optional minus sign and digits only.
IsIntLiteral(s) ==
  LET ds == IF s # <<>> /\ Head(s) = "-" THEN Tail(s) ELSE s
  IN  ds # <<>> /\ \A i \in 1..Len(ds) : ds[i] \in Digit

IntValue(s) ==
  IF Head(s) = "-" THEN 0 - DigitsValue(Tail(s), 0) ELSE DigitsValue(s, 0)

\* s does not begin like a number.
NoNumber(s) == s = <<>> \/ Head(s) \notin Digit \cup {"-", "+"}

\* C14 as stated: for every l that is an integer, 0, negatives and values
\* above 100 included, the quality is that integer; for an absent or
\* unparseable l it is 40.
C14_QualityIsParsed ==
  ParamsBuilt =>
    /\ (Has(req.query, "l") /\ IsIntLiteral(req.query["l"]))
         => req.params.quality = IntValue(req.query["l"])
    /\ (~Has(req.query, "l") \/ NoNumber(req.query["l"]))
         => req.params.quality = DEFAULT_QUALITY

\* C14, amended: for every l that is a non-zero integer, negatives and values
\* above 100 included, the quality is that integer, unclamped; for an l that
\* is absent, unparseable or 0 it is 40.
C14_QualityIsParsedOrDefault ==
  ParamsBuilt =>
    /\ (Has(req.query, "l") /\ IsIntLiteral(req.query["l"])
          /\ IntValue(req.query["l"]) # 0)
         => req.params.quality = IntValue(req.query["l"])
    /\ (~Has(req.query, "l") \/ NoNumber(req.query["l"])
          \/ (IsIntLiteral(req.query["l"]) /\ IntValue(req.query["l"]) = 0))
         => req.params.quality = DEFAULT_QUALITY

\* l = 150 was taken as it is.
C14_Witness ==
  /\ ParamsBuilt /\ Has(req.query, "l") /\ req.query["l"] = <<"1", "5", "0">>
  /\ req.params.quality = 150

Min(a, b) == IF a < b THEN a ELSE b

\* The probe has resolved: its height is known to the transcoder.
Probed == tx.height # 0

\* C15 as stated: for every probed height h, a height cap of 16383 with the
\* width unset is applied if h >= 16383 and no resize if h < 16383; the output
\* height is min(h, 16383) and never above 16383.
C15_HeightCap ==
  Probed =>
    /\ tx.height >= 16383 => (tx.resizeHeight = 16383 /\ tx.resizeWidth = 0)
    /\ tx.height < 16383 => (tx.resizeHeight = 0 /\ tx.resizeWidth = 0)
    /\ OutputHeight(tx) = Min(tx.height, 16383)

\* C15, amended: the cap of 16383 with the width unset is applied if
\* h > 16383 (src/src/proxy.js) or h >= 16383 (src/proxy1.js), and no resize
\* otherwise; in every copy the output height is min(h, 16383): 20000 gives
\* 16383.
C15_HeightCapPerCopy ==
  Probed =>
    /\ tx.resizeWidth = 0
    /\ tx.resizeHeight =
         IF (impl = "proxy" /\ tx.height > 16383) \/ (impl # "proxy" /\ tx.height >= 16383)
           THEN 16383 ELSE 0
    /\ OutputHeight(tx) = Min(tx.height, 16383)
    /\ OutputHeight(tx) <= 16383

\* A source of 20000 rows was encoded with 16383 rows.
C15_Witness ==
  /\ tx.height = 20000 /\ OutputHeight(tx) = 16383
  /\ tx.state \in {"data", "ended"}

AllowList == {"cookie", "dnt", "referer", "range"}

\* C16: the headers of the upstream request are the inbound cookie, dnt,
\* referer and range, the synthetic user-agent and via: 1.1 bandwidth-hero,
\* and nothing else, so that two inbound requests that differ only in other
\* headers give the same upstream headers.
C16_UpstreamHeadersAllowList ==
  upstream.opened > 0 =>
    /\ DOMAIN upstream.headers = (DOMAIN req.headers \cap AllowList) \cup {"user-agent", "via"}
    /\ \A n \in DOMAIN req.headers \cap AllowList : upstream.headers[n] = req.headers[n]
    /\ upstream.headers["user-agent"] = S_agent
    /\ upstream.headers["via"] = S_via

\* The request is over for the client: its response is ended or its
\* connection torn down.
Terminal == res.finished \/ socketDestroyed

\* C17: when the origin never sends a response the upstream fetch times out
\* and is handled as a transport error, so the request reaches a terminal
\* state: it is never left with nothing more to happen and the client still
\* waiting.
C17_SilentOriginTimesOut ==
  (upstream.silent /\ ~ENABLED Next) => Terminal

\* The origin's response has been taken in by hhproxy: originType and
\* originSize are assigned and the policy has decided.
Fetched == impl # "legacy" /\ phase \in {"bypass", "compress"}

C19_DisconnectCancels ==
  [][res.closed => (input'.read = input.read /\ res'.body = res.body)]_vars

\* C20: backpressure on both body paths: while res.write has returned false
\* and 'drain' has not been emitted, the proxy takes no further chunk from the
\* origin body or from the transcoder's output to write it, so what is
\* written and not flushed stays bounded.
C20_Backpressure ==
  [][res.needDrain => res'.body = res.body]_vars

\* C21: for every request of hhproxy that obtains an origin response the
\* origin body has exactly one consumer, the drain, the bypass passthrough or
\* the transcoder: never two, and, once the response is ended over a body
\* that has not failed, not none.
C21_SingleConsumer ==
  (impl # "legacy" /\ OriginAnswered) =>
    /\ Cardinality(input.consumers) <= 1
    /\ (res.finished /\ ~input.errored) => Cardinality(input.consumers) = 1

\* The number of bytes in a body: a chunk of the transcoder carries its size.
RECURSIVE BodyBytes(_)
BodyBytes(b) == IF b = <<>> THEN 0 ELSE Head(b).n + BodyBytes(Tail(b))

\* A compressed response that has completed.
CompressedDone ==
  /\ res.finished /\ res.body # <<>>
  /\ \A i \in 1..Len(res.body) : res.body[i].src = "transcoder"

\* C22: on every compressed response that completes, the content-length sent
\* to the client is the number of transcoded bytes written to it (and so is
\* not the origin's content-length that copyHeaders copied).
C22_CompressedLength ==
  CompressedDone =>
    /\ Has(res.head.headers, "content-length")
    /\ ~HeaderInt(res.head.headers, "content-length").nan
    /\ HeaderInt(res.head.headers, "content-length").n = BodyBytes(res.body)

\* C23: when the origin responds or errors, every started stream ends or
\* errors and the client stays connected, every request reaches a terminal
\* state, the response ended or the client socket destroyed: on no path (a
\* redirect that throws part-way, a probe rejection, a transcode error, an
\* origin body that fails during bypass) is it left with nothing more to
\* happen and the response open.  An exception thrown out of hhproxy itself
\* goes to the framework and is left aside.
C23_EveryRequestTerminates ==
  (phase # "start" /\ ~upstream.silent /\ ~res.closed /\ exc.how # "sync"
     /\ ~ENABLED Next) => Terminal

====
